---- MODULE Spec2Model ----
(***************************************************************************)
(* Model of the SVG import service of src/JAVASCRIPT/SVG-import.js: the    *)
(* import handler (URL shape check, address admission, bounded fetch,      *)
(* size gate, sanitizer, root-element gate, temp-write + rename), the      *)
(* store directory and the raw and preview retrieval handlers.             *)
(*                                                                         *)
(* Text (URLs, addresses, documents, file names) is a sequence of          *)
(* one-character strings, so that trimming, prefix tests and the regular   *)
(* expressions of the source are computed character by character.          *)
(***************************************************************************)
EXTENDS Integers, Sequences, FiniteSets, TLC

(***************************************************************************)
(* Characters                                                              *)
(***************************************************************************)
UpperLetters == <<"A", "B", "C", "D", "E", "F", "G", "H", "I", "J", "K", "L", "M", "N", "O", "P", "Q", "R", "S", "T", "U", "V", "W", "X", "Y", "Z">>
LowerLetters == <<"a", "b", "c", "d", "e", "f", "g", "h", "i", "j", "k", "l", "m", "n", "o", "p", "q", "r", "s", "t", "u", "v", "w", "x", "y", "z">>
Digits == {"0", "1", "2", "3", "4", "5", "6", "7", "8", "9"}
HexLetters == {"a", "b", "c", "d", "e", "f"}
LetterSet == {UpperLetters[k] : k \in 1..26} \cup {LowerLetters[k] : k \in 1..26}

\* A code point outside ASCII (U+00E9), one character of two UTF-8 bytes.
EAcute == "U+00E9"

\* Case folding of the i flag (ASCII letters only are affected here).
Lower(c) ==
    IF \E k \in 1..26 : UpperLetters[k] = c
    THEN LowerLetters[CHOOSE k \in 1..26 : UpperLetters[k] = c]
    ELSE c

\* \s of a JavaScript regular expression, and the characters trim() strips.
IsSpace(c) == c \in {" ", "\t", "\n", "\r", "\f"}

\* \w of a JavaScript regular expression.
IsWord(c) == c \in LetterSet \cup Digits \cup {"_"}

(***************************************************************************)
(* Scanning helpers shared by the regular expressions.  Positions are      *)
(* 1-based; Len(s) + 1 is the end of input.                                *)
(***************************************************************************)
\* The literal lit (lower case) stands at position i of s, ignoring case.
LitAt(s, i, lit) ==
    /\ i >= 1
    /\ i + Len(lit) - 1 <= Len(s)
    /\ \A k \in 1..Len(lit) : Lower(s[i + k - 1]) = lit[k]

\* The literal lit stands at position i of s, case-sensitively.
LitAtCS(s, i, lit) ==
    /\ i >= 1
    /\ i + Len(lit) - 1 <= Len(s)
    /\ \A k \in 1..Len(lit) : s[i + k - 1] = lit[k]

\* \b after a word character: the next character is not a word character.
BoundaryAt(s, i) == i > Len(s) \/ ~IsWord(s[i])

\* End of the greedy run \s* starting at i.
SkipSpace(s, i) ==
    CHOOSE j \in i..(Len(s) + 1) :
        /\ (j > Len(s) \/ ~IsSpace(s[j]))
        /\ \A k \in i..(j - 1) : IsSpace(s[k])

\* End of the greedy run \w* starting at i.
SkipWord(s, i) ==
    CHOOSE j \in i..(Len(s) + 1) :
        /\ (j > Len(s) \/ ~IsWord(s[j]))
        /\ \A k \in i..(j - 1) : IsWord(s[k])

\* End of the greedy run [^c]* starting at i: the first c, or end of input.
SkipTo(s, i, c) ==
    CHOOSE j \in i..(Len(s) + 1) :
        /\ (j > Len(s) \/ s[j] = c)
        /\ \A k \in i..(j - 1) : s[k] # c

\* End of the greedy run [^\s>]* starting at i.
SkipValue(s, i) ==
    CHOOSE j \in i..(Len(s) + 1) :
        /\ (j > Len(s) \/ IsSpace(s[j]) \/ s[j] = ">")
        /\ \A k \in i..(j - 1) : ~(IsSpace(s[k]) \/ s[k] = ">")

\* Substring test (case-sensitive).
Contains(s, lit) == \E i \in 1..Len(s) : LitAtCS(s, i, lit)

(***************************************************************************)
(* sanitizeSvg: the five removal patterns.  Each XxxEnd(s, i) is the       *)
(* position just after the match of the pattern starting at i, or 0 when   *)
(* the pattern does not match at i.                                        *)
(***************************************************************************)
\* <\/name\s*> at position k: the position after it, or 0.
CloseTagEnd(s, k, name) ==
    IF LitAt(s, k, <<"<", "/">> \o name)
    THEN LET m == SkipSpace(s, k + 2 + Len(name))
         IN  IF m <= Len(s) /\ s[m] = ">" THEN m + 1 ELSE 0
    ELSE 0

\* <name\b[^>]*>[\s\S]*?<\/name\s*> at position i.
ElementEnd(s, i, name) ==
    IF LitAt(s, i, <<"<">> \o name) /\ BoundaryAt(s, i + 1 + Len(name))
    THEN LET g == SkipTo(s, i + 1 + Len(name), ">")
         IN  IF g > Len(s) THEN 0
             ELSE IF \E k \in (g + 1)..Len(s) : CloseTagEnd(s, k, name) # 0
                  THEN CloseTagEnd(s,
                           CHOOSE k \in (g + 1)..Len(s) :
                               /\ CloseTagEnd(s, k, name) # 0
                               /\ \A k2 \in (g + 1)..(k - 1) : CloseTagEnd(s, k2, name) = 0,
                           name)
                  ELSE 0
    ELSE 0

\* /<script\b[^>]*>[\s\S]*?<\/script\s*>/gi
ScriptEnd(s, i) == ElementEnd(s, i, <<"s", "c", "r", "i", "p", "t">>)

\* /\son\w+\s*=\s*(?:"[^"]*"|'[^']*'|[^\s>]+)/gi
HandlerEnd(s, i) ==
    IF i <= Len(s) /\ IsSpace(s[i]) /\ LitAt(s, i + 1, <<"o", "n">>)
    THEN LET w == SkipWord(s, i + 3)
             e == SkipSpace(s, w)
             v == SkipSpace(s, e + 1)
             q == IF v <= Len(s) /\ s[v] \in {"\"", "'"}
                  THEN SkipTo(s, v + 1, s[v]) ELSE 0
             r == SkipValue(s, v)
         IN  IF w = i + 3 \/ e > Len(s) \/ s[e] # "=" THEN 0
             ELSE IF q # 0 /\ q <= Len(s) THEN q + 1
             ELSE IF r > v THEN r
             ELSE 0
    ELSE 0

\* The attribute name (href|xlink:href) at i: the position after it, or 0.
HrefNameEnd(s, i) ==
    IF LitAt(s, i, <<"h", "r", "e", "f">>) THEN i + 4
    ELSE IF LitAt(s, i, <<"x", "l", "i", "n", "k", ":", "h", "r", "e", "f">>) THEN i + 10
    ELSE 0

\* /(href|xlink:href)\s*=\s*(?:"javascript:[^"]*"|'javascript:[^']*'|javascript:[^\s>]+)/gi
JsHrefEnd(s, i) ==
    LET n == HrefNameEnd(s, i)
        e == SkipSpace(s, n)
        v == SkipSpace(s, e + 1)
        q == IF v <= Len(s) /\ s[v] \in {"\"", "'"}
                  /\ LitAt(s, v + 1, <<"j", "a", "v", "a", "s", "c", "r", "i", "p", "t", ":">>)
             THEN SkipTo(s, v + 12, s[v]) ELSE 0
        r == IF LitAt(s, v, <<"j", "a", "v", "a", "s", "c", "r", "i", "p", "t", ":">>) THEN SkipValue(s, v + 11) ELSE 0
    IN  IF n = 0 \/ e > Len(s) \/ s[e] # "=" THEN 0
        ELSE IF q # 0 /\ q <= Len(s) THEN q + 1
        ELSE IF r > v + 11 THEN r
        ELSE 0

\* /<(iframe|object|embed|foreignObject)\b[^>]*>[\s\S]*?<\/\1\s*>/gi
EmbedEnd(s, i) ==
    IF ElementEnd(s, i, <<"i", "f", "r", "a", "m", "e">>) # 0 THEN ElementEnd(s, i, <<"i", "f", "r", "a", "m", "e">>)
    ELSE IF ElementEnd(s, i, <<"o", "b", "j", "e", "c", "t">>) # 0 THEN ElementEnd(s, i, <<"o", "b", "j", "e", "c", "t">>)
    ELSE IF ElementEnd(s, i, <<"e", "m", "b", "e", "d">>) # 0 THEN ElementEnd(s, i, <<"e", "m", "b", "e", "d">>)
    ELSE ElementEnd(s, i, <<"f", "o", "r", "e", "i", "g", "n", "o", "b", "j", "e", "c", "t">>)

\* "https?:\/\/ after an opening quote at v: the position after the //, or 0.
HttpPrefixEnd(s, v) ==
    IF LitAt(s, v, <<"h", "t", "t", "p", ":", "/", "/">>) THEN v + 7
    ELSE IF LitAt(s, v, <<"h", "t", "t", "p", "s", ":", "/", "/">>) THEN v + 8
    ELSE 0

\* /(xlink:href|href)\s*=\s*(?:"https?:\/\/[^"]*"|'https?:\/\/[^']*')/gi
ExternalRefEnd(s, i) ==
    LET n == HrefNameEnd(s, i)
        e == SkipSpace(s, n)
        v == SkipSpace(s, e + 1)
        h == IF v <= Len(s) /\ s[v] \in {"\"", "'"} THEN HttpPrefixEnd(s, v + 1) ELSE 0
        q == IF h # 0 THEN SkipTo(s, h, s[v]) ELSE 0
    IN  IF n = 0 \/ e > Len(s) \/ s[e] # "=" THEN 0
        ELSE IF q # 0 /\ q <= Len(s) THEN q + 1
        ELSE 0

\* The five patterns, in the order sanitizeSvg applies them.
PatScript == "script"
PatHandler == "handler"
PatJsHref == "jshref"
PatEmbed == "embed"
PatExternal == "external"

MatchEnd(p, s, i) ==
    CASE p = PatScript   -> ScriptEnd(s, i)
      [] p = PatHandler  -> HandlerEnd(s, i)
      [] p = PatJsHref   -> JsHrefEnd(s, i)
      [] p = PatEmbed    -> EmbedEnd(s, i)
      [] p = PatExternal -> ExternalRefEnd(s, i)

\* The leftmost match of p at or after position i (the next match of a
\* global pattern whose lastIndex is i), or 0.
\* The element of a one-element set: Only({e(x) : x \in {v}}) is e(v), with
\* v computed once.
Only(S) == CHOOSE x \in S : TRUE

FirstMatch(p, s, i) ==
    IF \E m \in i..Len(s) : MatchEnd(p, s, m) # 0
    THEN CHOOSE m \in i..Len(s) :
             /\ MatchEnd(p, s, m) # 0
             /\ \A k \in i..(m - 1) : MatchEnd(p, s, k) = 0
    ELSE 0

\* String.prototype.replace(/p/g, ''): one left-to-right pass; the scan
\* resumes after each match and never revisits the text it has joined.
RECURSIVE ReplaceFrom(_, _, _)
ReplaceFrom(p, s, i) ==
    Only({ IF m = 0 THEN SubSeq(s, i, Len(s))
           ELSE SubSeq(s, i, m - 1) \o ReplaceFrom(p, s, MatchEnd(p, s, m)) :
           m \in {FirstMatch(p, s, i)} })

RemoveAll(p, s) == Only({ ReplaceFrom(p, t, 1) : t \in {s} })

\* p.test(s) for a removal pattern.
Matches(p, s) == \E i \in 1..Len(s) : MatchEnd(p, s, i) # 0

HasForbiddenDecl_DoctypeOnly(s) ==
    \E i \in 1..Len(s) :
        LitAt(s, i, <<"<", "!">>) /\ LitAt(s, SkipSpace(s, i + 2), <<"d", "o", "c", "t", "y", "p", "e">>)

\* /<!\s*DOCTYPE/i.test(s) || /<!ENTITY/i.test(s)
HasForbiddenDecl(s) ==
    \/ \E i \in 1..Len(s) :
           LitAt(s, i, <<"<", "!">>) /\ LitAt(s, SkipSpace(s, i + 2), <<"d", "o", "c", "t", "y", "p", "e">>)
    \/ \E i \in 1..Len(s) : LitAt(s, i, <<"<", "!", "e", "n", "t", "i", "t", "y">>)

\* The removals of sanitizeSvg, for a text that passed the DOCTYPE/ENTITY test.
StripAll(s) ==
    RemoveAll(PatExternal,
        RemoveAll(PatEmbed,
            RemoveAll(PatJsHref,
                RemoveAll(PatHandler,
                    RemoveAll(PatScript, s)))))

\* sanitizeSvg: throws (ok = FALSE) or returns the cleaned text.
sanitizeSvg(svgText) ==
    IF HasForbiddenDecl(svgText)
    THEN [ok |-> FALSE, text |-> << >>]
    ELSE [ok |-> TRUE, text |-> StripAll(svgText)]

LooksLikeSvg_AnyElement(s) ==
    \E i \in 1..Len(s) :
        /\ s[i] = "<"
        /\ SkipWord(s, i + 1) > i + 1
        /\ SkipTo(s, SkipWord(s, i + 1), ">") <= Len(s)

\* /<svg\b[^>]*>/i.test(s)
LooksLikeSvg(s) ==
    \E i \in 1..Len(s) :
        /\ LitAt(s, i, <<"<", "s", "v", "g">>)
        /\ BoundaryAt(s, i + 4)
        /\ SkipTo(s, i + 4, ">") <= Len(s)

(***************************************************************************)
(* URL shape: String(req.body?.url || '').trim(), isHttpUrl, new URL(url). *)
(* The WHATWG parser is modelled for the inputs of UrlRequests: a scheme, a*)
(* colon, and for http(s) any run of slashes followed by a host of         *)
(* letters, digits, '-', '.' and '_' ending at '/', '?', '#', ':' or the   *)
(* end (no userinfo, no percent-encoding, no bracketed IPv6 literal).      *)
(***************************************************************************)
\* String.prototype.trim
Trim(s) ==
    IF \A k \in 1..Len(s) : IsSpace(s[k]) THEN << >>
    ELSE LET a == CHOOSE j \in 1..Len(s) :
                      ~IsSpace(s[j]) /\ \A k \in 1..(j - 1) : IsSpace(s[k])
             b == CHOOSE j \in 1..Len(s) :
                      ~IsSpace(s[j]) /\ \A k \in (j + 1)..Len(s) : IsSpace(s[k])
         IN  SubSeq(s, a, b)

\* The lower-cased text.
LowerText(s) == [k \in 1..Len(s) |-> Lower(s[k])]

IsSchemeChar(c) == c \in LetterSet \cup Digits \cup {"+", "-", "."}
IsHostChar(c) == c \in LetterSet \cup Digits \cup {"-", ".", "_"}

\* End of the run of scheme characters starting at i.
SkipScheme(s, i) ==
    CHOOSE j \in i..(Len(s) + 1) :
        /\ (j > Len(s) \/ ~IsSchemeChar(s[j]))
        /\ \A k \in i..(j - 1) : IsSchemeChar(s[k])

\* End of the run of '/' and '\' starting at i.
SkipSlashes(s, i) ==
    CHOOSE j \in i..(Len(s) + 1) :
        /\ (j > Len(s) \/ s[j] \notin {"/", "\\"})
        /\ \A k \in i..(j - 1) : s[k] \in {"/", "\\"}

\* End of the run of host characters starting at i.
SkipHost(s, i) ==
    CHOOSE j \in i..(Len(s) + 1) :
        /\ (j > Len(s) \/ ~IsHostChar(s[j]))
        /\ \A k \in i..(j - 1) : IsHostChar(s[k])

UrlFailure == [ok |-> FALSE, protocol |-> << >>, hostname |-> << >>]

\* new URL(u): throws (ok = FALSE) or yields protocol and hostname.
ParseUrl(u) ==
    IF Len(u) = 0 \/ u[1] \notin LetterSet THEN UrlFailure
    ELSE LET c == SkipScheme(u, 1)
             scheme == LowerText(SubSeq(u, 1, c - 1))
             h == SkipSlashes(u, c + 1)
             e == SkipHost(u, h)
         IN  IF c > Len(u) \/ u[c] # ":" THEN UrlFailure
             ELSE IF scheme \notin {<<"h", "t", "t", "p">>, <<"h", "t", "t", "p", "s">>}
                  THEN [ok |-> TRUE, protocol |-> scheme \o <<":">>, hostname |-> << >>]
             ELSE IF e = h THEN UrlFailure
             ELSE IF e <= Len(u) /\ u[e] \notin {"/", "\\", "?", "#", ":"} THEN UrlFailure
             ELSE [ok |-> TRUE, protocol |-> scheme \o <<":">>,
                   hostname |-> LowerText(SubSeq(u, h, e - 1))]

isHttpUrl_AnyScheme(u) == ParseUrl(u).ok

isHttpUrl(u) ==
    /\ ParseUrl(u).ok
    /\ ParseUrl(u).protocol \in {<<"h", "t", "t", "p", ":">>, <<"h", "t", "t", "p", "s", ":">>}

(***************************************************************************)
(* Addresses: net.isIP and isPrivateIp on the text dns.lookup returns.     *)
(***************************************************************************)
DigitSeq == <<"0", "1", "2", "3", "4", "5", "6", "7", "8", "9">>
DigitVal(c) == (CHOOSE k \in 1..10 : DigitSeq[k] = c) - 1

\* Decimal text of n in 0..255, as the resolver prints an IPv4 octet.
Dec(n) ==
    IF n < 10 THEN << DigitSeq[n + 1] >>
    ELSE IF n < 100 THEN << DigitSeq[(n \div 10) + 1], DigitSeq[(n % 10) + 1] >>
    ELSE << DigitSeq[(n \div 100) + 1], DigitSeq[((n \div 10) % 10) + 1],
            DigitSeq[(n % 10) + 1] >>

\* A decimal octet 0..255 without leading zero.
IsOctetText(p) ==
    /\ Len(p) \in 1..3
    /\ \A k \in 1..Len(p) : p[k] \in Digits
    /\ (Len(p) > 1 => p[1] # "0")
    /\ (Len(p) = 3 =>
            DigitVal(p[1]) * 100 + DigitVal(p[2]) * 10 + DigitVal(p[3]) <= 255)

\* net.isIPv4
IsIPv4Text(s) ==
    LET d1 == SkipTo(s, 1, ".")
        d2 == SkipTo(s, d1 + 1, ".")
        d3 == SkipTo(s, d2 + 1, ".")
        d4 == SkipTo(s, d3 + 1, ".")
    IN  /\ Len(s) >= 7
        /\ d1 <= Len(s) /\ d2 <= Len(s) /\ d3 <= Len(s)
        /\ d4 = Len(s) + 1
        /\ IsOctetText(SubSeq(s, 1, d1 - 1))
        /\ IsOctetText(SubSeq(s, d1 + 1, d2 - 1))
        /\ IsOctetText(SubSeq(s, d2 + 1, d3 - 1))
        /\ IsOctetText(SubSeq(s, d3 + 1, Len(s)))

IsHexChar(c) == Lower(c) \in Digits \cup HexLetters

\* net.isIPv6 for the colon-hexadecimal forms (no embedded IPv4, no zone):
\* groups of one to four hex digits, eight of them or fewer around one "::".
IsIPv6Text(s) ==
    LET n == Len(s)
        doubles == {i \in 1..(n - 1) : s[i] = ":" /\ s[i + 1] = ":"}
        starts == {i \in 1..n : IsHexChar(s[i]) /\ (i = 1 \/ s[i - 1] = ":")}
        runEnd(i) == CHOOSE j \in i..(n + 1) :
                         /\ (j > n \/ ~IsHexChar(s[j]))
                         /\ \A k \in i..(j - 1) : IsHexChar(s[k])
    IN  /\ n >= 2
        /\ \A i \in 1..n : IsHexChar(s[i]) \/ s[i] = ":"
        /\ Cardinality(doubles) <= 1
        /\ (s[1] = ":" => s[2] = ":")
        /\ (s[n] = ":" => s[n - 1] = ":")
        /\ \A i \in starts : runEnd(i) - i <= 4
        /\ IF doubles = {} THEN Cardinality(starts) = 8 ELSE Cardinality(starts) <= 7

\* net.isIP(ip) !== 0
IsIP(ip) == IsIPv4Text(ip) \/ IsIPv6Text(ip)

Is172Private_Through32(ip) ==
    /\ LitAtCS(ip, 1, <<"1", "7", "2", ".">>)
    /\ Len(ip) >= 7
    /\ \/ ip[5] = "1" /\ ip[6] \in {"6", "7", "8", "9"}
       \/ ip[5] = "2" /\ ip[6] \in Digits
       \/ ip[5] = "3" /\ ip[6] \in {"0", "1", "2"}
    /\ ip[7] = "."

\* /^172\.(1[6-9]|2\d|3[0-1])\./.test(ip)
Is172Private(ip) ==
    /\ LitAtCS(ip, 1, <<"1", "7", "2", ".">>)
    /\ Len(ip) >= 7
    /\ \/ ip[5] = "1" /\ ip[6] \in {"6", "7", "8", "9"}
       \/ ip[5] = "2" /\ ip[6] \in Digits
       \/ ip[5] = "3" /\ ip[6] \in {"0", "1"}
    /\ ip[7] = "."

isPrivateIp(ip) ==
    IF ~IsIP(ip) THEN FALSE
    ELSE IF \/ LitAtCS(ip, 1, <<"1", "0", ".">>)
            \/ LitAtCS(ip, 1, <<"1", "2", "7", ".">>)
            \/ LitAtCS(ip, 1, <<"1", "6", "9", ".", "2", "5", "4", ".">>)
            \/ LitAtCS(ip, 1, <<"1", "9", "2", ".", "1", "6", "8", ".">>)
            \/ Is172Private(ip)
    THEN TRUE
    ELSE IF ip = <<":", ":", "1">> \/ LitAtCS(ip, 1, <<"f", "e", "8", "0">>) \/ ip = <<":", ":">> THEN TRUE
    ELSE FALSE

(***************************************************************************)
(* File names of the store                                                 *)
(***************************************************************************)
IsIdChar(c) == Lower(c) \in HexLetters \cup Digits \cup {"-"}

isValidUploadName_CaseSensitive(name) ==
    /\ Len(name) = 40
    /\ \A k \in 1..36 : name[k] \in HexLetters \cup Digits \cup {"-"}
    /\ LitAtCS(name, 37, <<".", "s", "v", "g">>)

isValidUploadName_Unanchored(name) ==
    \E i \in 1..Len(name) :
        /\ i + 39 <= Len(name)
        /\ \A k \in i..(i + 35) : IsIdChar(name[k])
        /\ LitAt(name, i + 36, <<".", "s", "v", "g">>)

\* /^[a-f0-9\-]{36}\.svg$/i.test(name)
isValidUploadName(name) ==
    /\ Len(name) = 40
    /\ \A k \in 1..36 : IsIdChar(name[k])
    /\ LitAt(name, 37, <<".", "s", "v", "g">>)

(***************************************************************************)
(* Bounds and program constants                                            *)
(***************************************************************************)
\* Import requests served over a run (the connection slots are reused).
MaxImports == 2
\* Fragments concatenated into one document given to the sanitizer.
MaxFrags == 3

\* const maxBytes = 500 * 1024
maxBytes == 512000

\* Import requests in flight at the same time.
Conns == {1}
\* Retrieval requests in flight at the same time.
Readers == {1}

(***************************************************************************)
(* Inputs.  A request carries the kind it was built as, an address the     *)
(* range it was drawn from: the handlers read only the text.               *)
(***************************************************************************)
Req(kind, text) == [kind |-> kind, hasUrl |-> kind # "missing", text |-> text]

UrlRequests ==
    { Req("missing", << >>),
      Req("blank", <<" ", " ">>),
      Req("relative", <<"/", "/", "h", "/", "a", ".", "s", "v", "g">>),
      Req("nohost", <<"h", "t", "t", "p", ":", "/", "/">>),
      Req("otherscheme", <<"f", "t", "p", ":", "/", "/", "h", "/", "a", ".", "s", "v", "g">>),
      Req("http", <<" ", "h", "t", "t", "p", ":", "/", "/", "h", "/", "a", ".", "s", "v", "g", " ">>),
      Req("https", <<"H", "T", "T", "P", "S", ":", "/", "/", "H", "/", "a", ".", "s", "v", "g">>),
      Req("http", <<"h", "t", "t", "p", ":", "/", "/", "1", "2", "7", ".", "0", ".", "0", ".", "1", "/", "a", "n", "y", "t", "h", "i", "n", "g">>) }

NoReq == Req("none", << >>)

\* Missing, blank after trimming, not an absolute URL, or not http(s).
UrlBad(req) == req.kind \in {"missing", "blank", "relative", "nohost", "otherscheme"}

\* The ranges of the address classifier, on the octets of an IPv4 address.
InternalV4(o) ==
    \/ o[1] = 10
    \/ o[1] = 127
    \/ o[1] = 169 /\ o[2] = 254
    \/ o[1] = 192 /\ o[2] = 168
    \/ o[1] = 172 /\ o[2] \in 16..31

FormatV4(o) == Dec(o[1]) \o <<".">> \o Dec(o[2]) \o <<".">> \o Dec(o[3]) \o <<".">> \o Dec(o[4])

\* One record of dns.lookup(hostname, {all: true}).
V4(o) == [family |-> 4, address |-> FormatV4(o), internal |-> InternalV4(o)]
V6(text, internal) == [family |-> 6, address |-> text, internal |-> internal]
\* An entry that is no IP address at all.
Bogus(text) == [family |-> 0, address |-> text, internal |-> FALSE]

PublicA == V4(<<93, 184, 216, 34>>)
PublicB == V4(<<100, 64, 0, 1>>)
Public172 == V4(<<172, 32, 0, 1>>)
Public6 == V6(<<"2", "6", "0", "6", ":", "4", "7", "0", "0", ":", ":", "1", "1", "1", "1">>, FALSE)

Answer(threw, records) == [present |-> TRUE, threw |-> threw, records |-> records]
NoAnswer == [present |-> FALSE, threw |-> FALSE, records |-> << >>]

\* What the resolver may answer for a host name.
Answers ==
    { Answer(TRUE, << >>),
      Answer(FALSE, << >>),
      Answer(FALSE, << PublicA >>),
      Answer(FALSE, << PublicB, Public172, Public6 >>),
      Answer(FALSE, << V4(<<10, 0, 0, 5>>) >>),
      Answer(FALSE, << PublicA, V4(<<172, 31, 255, 1>>) >>),
      Answer(FALSE, << PublicA, Public6, V4(<<169, 254, 169, 254>>) >>),
      Answer(FALSE, << Public6, V6(<<":", ":", "1">>, TRUE) >>),
      Answer(FALSE, << V6(<<"f", "e", "8", "0", ":", ":", "1">>, TRUE) >>),
      Answer(FALSE, << Bogus(<<"n", "o", "t", "-", "a", "n", "-", "i", "p">>) >>),
      Answer(FALSE, << PublicA, Bogus(<<"2", "5", "6", ".", "1", ".", "1", ".", "1">>) >>) }

\* dns.lookup of an IP literal answers with the literal itself.
LiteralAnswer(hostname) ==
    Answer(FALSE, << [family |-> 4, address |-> hostname,
                      internal |-> hostname = <<"1", "2", "7", ".", "0", ".", "0", ".", "1">>] >>)

AnswersFor(hostname) ==
    IF IsIPv4Text(hostname) THEN {LiteralAnswer(hostname)} ELSE Answers

\* The resolution failed: the lookup threw or the address set is empty.
ResolveFailed(answer) == answer.present /\ (answer.threw \/ Len(answer.records) = 0)

\* At least one resolved address is private, loopback or link-local.
HasInternal(answer) ==
    /\ answer.present /\ ~answer.threw
    /\ \E k \in 1..Len(answer.records) : answer.records[k].internal

\* The answer is not empty and none of its entries is an IP address.
OnlyInvalid(answer) ==
    /\ answer.present /\ ~answer.threw /\ Len(answer.records) > 0
    /\ \A k \in 1..Len(answer.records) : answer.records[k].family = 0

\* A document: its text followed by pad spaces (a long run of trailing
\* white space, which no pattern of the sanitizer can match into).
Doc(text, pad) == [present |-> TRUE, text |-> text, pad |-> pad]
NoDoc == [present |-> FALSE, text |-> << >>, pad |-> 0]

\* UTF-8 bytes of a text: one per ASCII character, two for U+00E9.
Utf8Bytes(s) == Len(s) + Cardinality({k \in 1..Len(s) : s[k] = EAcute})

\* text.length
byteLength_Chars(doc) == Len(doc.text) + doc.pad

\* Buffer.byteLength(text, 'utf8')
byteLength(doc) == Utf8Bytes(doc.text) + doc.pad

\* The text padded to n bytes.
PadTo(text, n) == Doc(text, n - Utf8Bytes(text))

BenignSvg == <<"<", "s", "v", "g", ">", "<", "p", "a", "t", "h", " ", "d", "=", "\"", "M", "0", " ", "0", "\"", "/", ">", "<", "/", "s", "v", "g", ">">>
ScriptSvg == <<"<", "s", "v", "g", ">", "<", "s", "c", "r", "i", "p", "t", ">", "a", "(", ")", "<", "/", "s", "c", "r", "i", "p", "t", ">", "<", "/", "s", "v", "g", ">">>
DoctypeSvg == <<"<", "!", "D", "O", "C", "T", "Y", "P", "E", " ", "s", "v", "g", ">", "<", "s", "v", "g", ">", "<", "/", "s", "v", "g", ">">>
EntitySvg == <<"<", "s", "v", "g", ">", "<", "!", "E", "N", "T", "I", "T", "Y", " ", "x", " ", "S", "Y", "S", "T", "E", "M", " ", "\"", "f", "i", "l", "e", ":", "/", "/", "/", "e", "t", "c", "/", "p", "a", "s", "s", "w", "d", "\"", ">", "<", "s", "c", "r", "i", "p", "t", ">", "a", "(", ")", "<", "/", "s", "c", "r", "i", "p", "t", ">", "<", "/", "s", "v", "g", ">">>
NotSvg == <<"<", "h", "t", "m", "l", ">", "h", "e", "l", "l", "o", "<", "/", "h", "t", "m", "l", ">">>
AccentSvg == <<"<", "s", "v", "g", ">">> \o << EAcute >> \o <<"<", "/", "s", "v", "g", ">">>
\* Prose in the character data of an element, no attribute at all.
ProseSvg == <<"<", "s", "v", "g", ">", "<", "d", "e", "s", "c", ">", "s", "e", "t", " ", "o", "n", "e", " ", "=", " ", "t", "w", "o", "<", "/", "d", "e", "s", "c", ">", "<", "/", "s", "v", "g", ">">>
\* An svg element inside an object element.
WrappedSvg == <<"<", "o", "b", "j", "e", "c", "t", ">", "<", "s", "v", "g", ">", "<", "/", "s", "v", "g", ">", "<", "/", "o", "b", "j", "e", "c", "t", ">">>

\* The bodies an upstream may deliver.
Bodies ==
    { Doc(DoctypeSvg, 0),
      Doc(EntitySvg, 0),
      Doc(NotSvg, 0),
      Doc(ProseSvg, 0),
      Doc(WrappedSvg, 0),
      PadTo(AccentSvg, maxBytes),
      PadTo(AccentSvg, maxBytes + 1),
      PadTo(DoctypeSvg, maxBytes + 1) }

\* The text holds a DOCTYPE or an ENTITY declaration.
HasDeclaration(doc) ==
    doc.present /\ (Contains(doc.text, <<"<", "!", "D", "O", "C", "T", "Y", "P", "E">>) \/ Contains(doc.text, <<"<", "!", "E", "N", "T", "I", "T", "Y">>))

\* Well-formed SVG documents with no DOCTYPE or ENTITY declaration, script,
\* event-handler attribute, javascript: reference, embedding element or
\* external reference.
BenignBodies == {Doc(BenignSvg, 0), Doc(ProseSvg, 0), PadTo(AccentSvg, maxBytes)}

\* The text holds an opening tag of an svg element.
HasSvgTag(doc) ==
    \E i \in 1..Len(doc.text) :
        /\ LitAt(doc.text, i, <<"<", "s", "v", "g">>)
        /\ i + 4 <= Len(doc.text)
        /\ ~IsWord(doc.text[i + 4])
        /\ \E j \in (i + 4)..Len(doc.text) : doc.text[j] = ">"

\* The upstream's answers to the fetch.
UpstreamStatuses == {200, 404, 503}

ResponseOk_Below500(code) == code < 500

\* r.ok
ResponseOk(code) == code \in 200..299

\* v4-style identifiers as uuidv4() prints them.
Uuid(k) == <<"0", "0", "0", "0", "0", "0", "0", "0", "-", "0", "0", "0", "0", "-", "4", "0", "0", "0", "-", "8", "0", "0", "0", "-", "0", "0", "0", "0", "0", "0", "0", "0", "0", "0", "0">> \o << DigitSeq[k + 1] >>
Ids == {Uuid(k) : k \in 1..MaxImports}

\* `${uuidv4()}.svg`
FileNameOf_NoExtension(id) == id

FileNameOf(id) == id \o <<".", "s", "v", "g">>

\* filepath + '.tmp'
TmpPathOf_InPlace(filepath) == filepath

TmpPathOf_Shared(filepath) == <<"u", "p", "l", "o", "a", "d", ".", "s", "v", "g", ".", "t", "m", "p">>

TmpPathOf(filepath) == filepath \o <<".", "t", "m", "p">>

UpperText(s) ==
    [k \in 1..Len(s) |->
        IF \E j \in 1..26 : LowerLetters[j] = s[k]
        THEN UpperLetters[CHOOSE j \in 1..26 : LowerLetters[j] = s[k]]
        ELSE s[k]]

\* The names a retrieval may ask for.
RetrievalNames ==
    {FileNameOf(id) : id \in Ids}
    \cup {TmpPathOf(FileNameOf(Uuid(1))),
          <<".", ".", "/">> \o FileNameOf(Uuid(1)),
          <<"0", "0", "0", "0", "0", "0", "0", "0", "-", "0", "0", "0", "0", "-", "4", "0", "0", "0", "-", "8", "0", "0", "0", "-", "0", "0", "0", "0", "/", ".", ".", "/", "0", "0", "0", "1", ".", "s", "v", "g">>,
          <<"0", "0", "0", "0", "0", "0", "0", "0", "-", "0", "0", "0", "0", "-", "4", "0", "0", "0", "-", "8", "0", "0", "0", "-", "0", "0", "0", "0", "0", "0", "0", "0", "0", "0", "0", "g", ".", "s", "v", "g">>,
          UpperText(<<"a", "b", "c", "d", "e", "f", "0", "0", "-", "0", "0", "0", "0", "-", "4", "0", "0", "0", "-", "8", "0", "0", "0", "-", "0", "0", "0", "0", "0", "0", "0", "0", "0", "0", "0", "1", ".", "s", "v", "g">>)}

\* The name holds "..", holds "/", or is not 36 hex/hyphen characters
\* followed by .svg.
NameBad(name) ==
    \/ Contains(name, <<".", ".">>)
    \/ Contains(name, <<"/">>)
    \/ Len(name) # 40
    \/ \E k \in 1..36 : k <= Len(name) /\ Lower(name[k]) \notin Digits \cup HexLetters \cup {"-"}
    \/ ~LitAt(name, 37, <<".", "s", "v", "g">>)

(***************************************************************************)
(* State                                                                   *)
(***************************************************************************)
VARIABLES
    imports,     \* per connection: the import request being handled
    retrievals,  \* per reader: the retrieval request being handled
    files,       \* the uploads directory: path -> content
    issued,      \* identifiers uuidv4() has returned -> the cleaned text saved under each
    started,     \* import requests accepted so far
    san,         \* the sanitizer applied on its own (specification SanSpec)
    probe        \* the address classifier applied on its own (specification IpSpec)

vars == << imports, retrievals, files, issued, started, san, probe >>

\* An import request.  url, answer and body hold the input of the stage the
\* request is in or ended in; lookups, fetches count the calls it has made.
IdleImport ==
    [pc |-> "idle", status |-> 0, msg |-> "none",
     url |-> NoReq, answer |-> NoAnswer, body |-> NoDoc, clean |-> NoDoc,
     filename |-> << >>, lookups |-> 0, fetches |-> 0, timer |-> "none",
     upstream |-> 0]

\* A retrieval request.  ops lists the filesystem calls it has made.
IdleRetrieval ==
    [pc |-> "idle", route |-> "none", name |-> << >>, status |-> 0, msg |-> "none",
     body |-> NoDoc, ops |-> << >>, headers |-> {}]

IdleSan == [pc |-> "idle", input |-> << >>, once |-> [ok |-> FALSE, text |-> << >>],
            twice |-> [ok |-> FALSE, text |-> << >>]]

IdleProbe == [pc |-> "idle", rec |-> Bogus(<< >>), private |-> FALSE]

\* The empty directory.
EmptyDir == [q \in {} |-> NoDoc]

Init ==
    /\ imports = [i \in Conns |-> IdleImport]
    /\ retrievals = [r \in Readers |-> IdleRetrieval]
    /\ files = EmptyDir
    /\ issued = EmptyDir
    /\ started = 0
    /\ san = IdleSan
    /\ probe = IdleProbe

\* res.status(code).send(text): the request is answered.
Respond(rec, code, text) == [rec EXCEPT !.pc = "done", !.status = code, !.msg = text]

\* The directory with path p holding content c.
WithFile(dir, p, c) == [q \in (DOMAIN dir) \cup {p} |-> IF q = p THEN c ELSE dir[q]]

\* The directory without path p.
WithoutFile(dir, p) == [q \in (DOMAIN dir) \ {p} |-> dir[q]]

\* fs.renameSync(from, to)
Renamed(dir, from, to) == WithFile(WithoutFile(dir, from), to, dir[from])

\* The first half of a text: what a write that fails midway leaves behind.
Truncated(c) == Doc(SubSeq(c.text, 1, Len(c.text) \div 2), 0)

\* c1 is a leading part of c2 (an interrupted write of c2).
IsPrefixOf(c1, c2) ==
    \/ c1 = c2
    \/ /\ c1.pad = 0
       /\ Len(c1.text) <= Len(c2.text)
       /\ c1.text = SubSeq(c2.text, 1, Len(c1.text))

(***************************************************************************)
(* POST /import.url                                                        *)
(***************************************************************************)
\* hostnameToIPs: the addresses of the records, [] when the lookup throws.
hostnameToIPs_FailOpen(answer) ==
    IF answer.threw THEN << <<"0", ".", "0", ".", "0", ".", "0">> >>
    ELSE [k \in 1..Len(answer.records) |-> answer.records[k].address]

hostnameToIPs(answer) ==
    IF answer.threw THEN << >>
    ELSE [k \in 1..Len(answer.records) |-> answer.records[k].address]

\* for (const ip of ips) if (isPrivateIp(ip)) return 403
AnyPrivate_FirstOnly(ips) == Len(ips) > 0 /\ isPrivateIp(ips[1])

AnyPrivate(ips) == \E k \in 1..Len(ips) : isPrivateIp(ips[k])

\* The handlers' pure computations, tabulated once over the inputs.
AllAnswers == Answers \cup {LiteralAnswer(<<"1", "2", "7", ".", "0", ".", "0", ".", "1">>)}
TrimmedUrl == [req \in UrlRequests |-> IF req.hasUrl THEN Trim(req.text) ELSE << >>]
HttpUrl == [req \in UrlRequests |-> isHttpUrl(TrimmedUrl[req])]
ParsedUrl == [req \in UrlRequests |-> ParseUrl(TrimmedUrl[req])]
AnswersOf == [req \in UrlRequests |-> AnswersFor(ParsedUrl[req].hostname)]
ResolvedIps == [answer \in AllAnswers |-> hostnameToIPs(answer)]
PrivateFound == [answer \in AllAnswers |-> AnyPrivate(ResolvedIps[answer])]
ByteLength == [body \in Bodies |-> byteLength(body)]
ValidName == [name \in RetrievalNames |-> isValidUploadName(name)]

\* Lines 84-97: the shape check, up to the call of dns.lookup.
ImportStart(i, req) ==
    /\ imports[i].pc \in {"idle", "done"}
    /\ \A j \in Conns : j < i => imports[j].pc # "idle"
    /\ started < MaxImports
    /\ started' = started + 1
    /\ LET url == TrimmedUrl[req]
           rec == [IdleImport EXCEPT !.url = req]
       IN  imports' = [imports EXCEPT ![i] =
               IF Len(url) = 0 THEN Respond(rec, 400, "Missing url")
               ELSE IF ~HttpUrl[req] THEN Respond(rec, 400, "URL must be http or https")
               ELSE IF ~ParsedUrl[req].ok THEN Respond(rec, 400, "Invalid URL")
               ELSE [rec EXCEPT !.pc = "resolving", !.lookups = 1]]
    /\ UNCHANGED << retrievals, files, issued, san, probe >>

\* Lines 97-114: the lookup returns; admission; the fetch is started under
\* the abort timer.
ImportResolved(i, answer) ==
    /\ imports[i].pc = "resolving"
    /\ answer \in AnswersOf[imports[i].url]
    /\ LET ips == ResolvedIps[answer]
           rec == [imports[i] EXCEPT !.url = NoReq, !.answer = answer]
       IN  imports' = [imports EXCEPT ![i] =
               IF Len(ips) = 0 THEN Respond(rec, 400, "Could not resolve hostname")
               ELSE IF PrivateFound[answer]
                    THEN Respond(rec, 403, "Fetching private IP addresses is not allowed")
               ELSE [rec EXCEPT !.pc = "fetching", !.fetches = 1, !.timer = "armed"]]
    /\ UNCHANGED << retrievals, files, issued, started, san, probe >>

\* Lines 114-127: the response headers arrive; the timer is cleared; a
\* non-success status is answered with 502, else the body is awaited.
ImportFetched(i, code) ==
    /\ imports[i].pc = "fetching"
    /\ LET rec == [imports[i] EXCEPT !.answer = NoAnswer, !.timer = "cleared",
                                     !.upstream = code]
       IN  imports' = [imports EXCEPT ![i] =
               IF ~ResponseOk(code) THEN Respond(rec, 502, "Upstream fetch failed")
               ELSE [rec EXCEPT !.pc = "reading"]]
    /\ UNCHANGED << retrievals, files, issued, started, san, probe >>

\* Lines 112, 159: the timer fires while fetch() is pending; the request is
\* aborted and fetch() rejects with an AbortError.
ImportTimeout(i) ==
    /\ imports[i].pc = "fetching"
    /\ imports[i].timer = "armed"
    /\ imports' = [imports EXCEPT ![i] =
           Respond([imports[i] EXCEPT !.answer = NoAnswer, !.timer = "fired"],
                   504, "Fetch timed out")]
    /\ UNCHANGED << retrievals, files, issued, started, san, probe >>

\* Lines 114/127, 160-161: fetch() or r.text() rejects with a network error.
ImportNetworkError(i) ==
    /\ imports[i].pc \in {"fetching", "reading"}
    /\ imports' = [imports EXCEPT ![i] =
           Respond([imports[i] EXCEPT !.answer = NoAnswer, !.timer = "cleared"],
                   500, "Failed to fetch URL")]
    /\ UNCHANGED << retrievals, files, issued, started, san, probe >>

ImportBody_SanitizeFirst(i, body, id) ==
    /\ imports[i].pc = "reading"
    /\ id \notin DOMAIN issued
    /\ id = Uuid(Cardinality(DOMAIN issued) + 1)
    /\ \E result \in {sanitizeSvg(body.text)} :
           LET rec == [imports[i] EXCEPT !.body = body]
               clean == Doc(result.text, body.pad)
               filename == FileNameOf(id)
               svgFound == result.ok /\ LooksLikeSvg(result.text)
               passed == ByteLength[body] <= maxBytes /\ svgFound
           IN  /\ imports' = [imports EXCEPT ![i] =
                      IF ~result.ok THEN Respond(rec, 400, "SVG rejected")
                      ELSE IF ByteLength[body] > maxBytes THEN Respond(rec, 413, "SVG too large")
                      ELSE IF ~svgFound
                           THEN Respond(rec, 400, "Content is not a valid SVG")
                      ELSE [rec EXCEPT !.pc = "writing", !.clean = clean,
                                       !.filename = filename]]
               /\ files' = IF passed THEN WithFile(files, TmpPathOf(filename), Doc(<< >>, 0))
                           ELSE files
               /\ issued' = IF passed THEN WithFile(issued, id, clean) ELSE issued
    /\ UNCHANGED << retrievals, started, san, probe >>

\* Lines 127-153: the body is buffered; size gate, sanitizer, root-element
\* gate, a fresh identifier, and writeFileSync opens the temporary file.
ImportBody(i, body, id) ==
    /\ imports[i].pc = "reading"
    /\ id \notin DOMAIN issued
    /\ id = Uuid(Cardinality(DOMAIN issued) + 1)
    /\ \E result \in {sanitizeSvg(body.text)} :
           LET rec == [imports[i] EXCEPT !.body = body]
               clean == Doc(result.text, body.pad)
               filename == FileNameOf(id)
               svgFound == result.ok /\ LooksLikeSvg(result.text)
               passed == ByteLength[body] <= maxBytes /\ svgFound
           IN  /\ imports' = [imports EXCEPT ![i] =
                      IF ByteLength[body] > maxBytes THEN Respond(rec, 413, "SVG too large")
                      ELSE IF ~result.ok THEN Respond(rec, 400, "SVG rejected")
                      ELSE IF ~svgFound
                           THEN Respond(rec, 400, "Content is not a valid SVG")
                      ELSE [rec EXCEPT !.pc = "writing", !.clean = clean,
                                       !.filename = filename]]
               /\ files' = IF passed THEN WithFile(files, TmpPathOf(filename), Doc(<< >>, 0))
                           ELSE files
               /\ issued' = IF passed THEN WithFile(issued, id, clean) ELSE issued
    /\ UNCHANGED << retrievals, started, san, probe >>

\* Line 153: writeFileSync writes the cleaned text and closes the file.
ImportWrite(i) ==
    /\ imports[i].pc = "writing"
    /\ files' = WithFile(files, TmpPathOf(imports[i].filename), imports[i].clean)
    /\ imports' = [imports EXCEPT ![i].pc = "written"]
    /\ UNCHANGED << retrievals, issued, started, san, probe >>

\* Lines 153, 160-161: writeFileSync throws after a partial write (the
\* disk is full); the handler's catch answers 500.
ImportWriteFails(i) ==
    /\ imports[i].pc = "writing"
    /\ files' = WithFile(files, TmpPathOf(imports[i].filename),
                         Truncated(imports[i].clean))
    /\ imports' = [imports EXCEPT ![i] = Respond(imports[i], 500, "Failed to fetch URL")]
    /\ UNCHANGED << retrievals, issued, started, san, probe >>

\* Lines 154-157: renameSync moves the file into place; 201 with the name.
ImportRename(i) ==
    /\ imports[i].pc = "written"
    /\ files' = Renamed(files, TmpPathOf(imports[i].filename), imports[i].filename)
    /\ imports' = [imports EXCEPT ![i] = Respond(imports[i], 201, "Imported")]
    /\ UNCHANGED << retrievals, issued, started, san, probe >>

\* Lines 154, 160-161: renameSync throws; the handler's catch answers 500.
ImportRenameFails(i) ==
    /\ imports[i].pc = "written"
    /\ imports' = [imports EXCEPT ![i] = Respond(imports[i], 500, "Failed to fetch URL")]
    /\ UNCHANGED << retrievals, files, issued, started, san, probe >>

(***************************************************************************)
(* GET /uploads/:name and GET /view/:name                                  *)
(***************************************************************************)
CspHeader_SelfScripts == "Content-Security-Policy: default-src 'self'; img-src 'self'; style-src 'unsafe-inline';"
CspHeader == "Content-Security-Policy: default-src 'none'; img-src 'self'; style-src 'unsafe-inline';"
NoSniffHeader == "X-Content-Type-Options: nosniff"
SvgTypeHeader == "Content-Type: image/svg+xml; charset=utf-8"

\* Lines 166-179: name check, path.join, existsSync, then res.sendFile
\* starts streaming the file.
RetrieveRaw(r, name) ==
    /\ retrievals[r].pc \in {"idle", "done"}
    /\ LET rec == [IdleRetrieval EXCEPT !.route = "uploads", !.name = name]
           looked == [rec EXCEPT !.ops = << "join", "existsSync" >>]
       IN  retrievals' = [retrievals EXCEPT ![r] =
               IF ~ValidName[name] THEN Respond(rec, 400, "Invalid filename")
               ELSE IF name \notin DOMAIN files THEN Respond(looked, 404, "Not found")
               ELSE [looked EXCEPT !.pc = "sending", !.headers = {SvgTypeHeader}]]
    /\ UNCHANGED << imports, files, issued, started, san, probe >>

\* Line 179: sendFile reads the file and ends the response.
RawSent(r) ==
    /\ retrievals[r].pc = "sending"
    /\ retrievals[r].name \in DOMAIN files
    /\ retrievals' = [retrievals EXCEPT ![r] =
           Respond([retrievals[r] EXCEPT !.body = files[retrievals[r].name],
                                         !.ops = @ \o << "sendFile" >>],
                   200, "file")]
    /\ UNCHANGED << imports, files, issued, started, san, probe >>

\* Lines 184-214: name check, path.join, existsSync, readFileSync, the two
\* headers, and the page with the document inlined.
RetrievePreview(r, name) ==
    /\ retrievals[r].pc \in {"idle", "done"}
    /\ LET rec == [IdleRetrieval EXCEPT !.route = "view", !.name = name]
           looked == [rec EXCEPT !.ops = << "join", "existsSync" >>]
       IN  retrievals' = [retrievals EXCEPT ![r] =
               IF ~ValidName[name] THEN Respond(rec, 400, "Invalid filename")
               ELSE IF name \notin DOMAIN files THEN Respond(looked, 404, "Not found")
               ELSE Respond([looked EXCEPT !.body = files[name],
                                           !.ops = @ \o << "readFileSync" >>,
                                           !.headers = {CspHeader, NoSniffHeader}],
                            200, "page")]
    /\ UNCHANGED << imports, files, issued, started, san, probe >>

Next ==
    \/ \E i \in Conns, req \in UrlRequests : ImportStart(i, req)
    \/ \E i \in Conns, answer \in AllAnswers :
           ImportResolved(i, answer)
    \/ \E i \in Conns, code \in UpstreamStatuses : ImportFetched(i, code)
    \/ \E i \in Conns : ImportTimeout(i)
    \/ \E i \in Conns : ImportNetworkError(i)
    \/ \E i \in Conns, body \in Bodies, id \in Ids : ImportBody(i, body, id)
    \/ \E i \in Conns : ImportWrite(i)
    \/ \E i \in Conns : ImportWriteFails(i)
    \/ \E i \in Conns : ImportRename(i)
    \/ \E i \in Conns : ImportRenameFails(i)
    \/ \E r \in Readers, name \in RetrievalNames : RetrieveRaw(r, name)
    \/ \E r \in Readers : RawSent(r)
    \/ \E r \in Readers, name \in RetrievalNames : RetrievePreview(r, name)

Spec == Init /\ [][Next]_vars

(***************************************************************************)
(* The sanitizer on its own: a document built from fragments is sanitized, *)
(* and the cleaned text is sanitized once more.                            *)
(***************************************************************************)
Fragments ==
    { <<"<", "s", "v", "g", ">">>,
      <<"<", "s", "c", "r">>,
      <<"i", "p", "t", ">">>,
      <<"<", "s", "c", "r", "i", "p", "t", ">", "<", "/", "s", "c", "r", "i", "p", "t", ">">>,
      <<"i", "p", "t", ">", "a", "(", ")", "<", "/", "s", "c", "r", "i", "p", "t", ">">>,
      <<" ", "o", "n", "l", "o", "a", "d", "=", "\"", "a", "\"">>,
      <<" ", "o", "n", "x">>,
      <<"=", "1">>,
      <<" ", "h", "r", "e", "f", "=", "\"", "j", "a", "v", "a", "s", "c", "r", "i", "p", "t", ":", "b", "\"">>,
      <<"<", "!", "D", "O", "C", "T", "Y", "P", "E", " ", "x", ">">> }

RECURSIVE DocsOf(_)
DocsOf(n) ==
    IF n = 0 THEN {<< >>}
    ELSE DocsOf(n - 1) \cup {d \o f : d \in DocsOf(n - 1), f \in Fragments}

SanDocs == DocsOf(MaxFrags)

SanInit ==
    /\ san \in {[IdleSan EXCEPT !.pc = "input", !.input = d] : d \in SanDocs}
    /\ imports = [i \in Conns |-> IdleImport]
    /\ retrievals = [r \in Readers |-> IdleRetrieval]
    /\ files = EmptyDir
    /\ issued = EmptyDir
    /\ started = 0
    /\ probe = IdleProbe

Sanitize ==
    /\ san.pc = "input"
    /\ san' = [san EXCEPT !.pc = "once", !.once = sanitizeSvg(san.input)]
    /\ UNCHANGED << imports, retrievals, files, issued, started, probe >>

SanitizeAgain ==
    /\ san.pc = "once"
    /\ san.once.ok
    /\ san' = [san EXCEPT !.pc = "twice", !.twice = sanitizeSvg(san.once.text)]
    /\ UNCHANGED << imports, retrievals, files, issued, started, probe >>

SanNext == Sanitize \/ SanitizeAgain

SanSpec == SanInit /\ [][SanNext]_vars

(***************************************************************************)
(* The address classifier on its own: isPrivateIp applied to one address   *)
(* as dns.lookup prints it, or to a text that is no address.               *)
(***************************************************************************)
ProbeFirst == {9, 10, 11, 126, 127, 128, 169, 172, 173, 192, 193}
ProbeSecond == {0, 15, 16, 31, 32, 167, 168, 253, 254, 255}

ProbeV4 == {V4(<< a, b, 0, 1 >>) : a \in ProbeFirst, b \in ProbeSecond}

\* Internal: ::1, :: and the addresses whose first group is fe80.
ProbeV6 ==
    { V6(<<":", ":", "1">>, TRUE),
      V6(<<":", ":">>, TRUE),
      V6(<<"f", "e", "8", "0", ":", ":", "1">>, TRUE),
      V6(<<"f", "e", "8", "0", ":", ":", "a", "0", "0", ":", "2", "7", "f", "f", ":", "f", "e", "4", "e", ":", "6", "6", "a", "1">>, TRUE),
      V6(<<"f", "e", "8", "0", ":", "1", ":", "2", ":", "3", ":", "4", ":", "5", ":", "6", ":", "7">>, TRUE),
      V6(<<":", ":", "2">>, FALSE),
      V6(<<"1", ":", ":">>, FALSE),
      V6(<<":", ":", "f", "e", "8", "0">>, FALSE),
      V6(<<"f", "e", "8", ":", ":", "1">>, FALSE),
      V6(<<"f", "e", "7", "f", ":", ":", "1">>, FALSE),
      V6(<<"f", "e", "8", "1", ":", ":", "1">>, FALSE),
      V6(<<"f", "c", "0", "0", ":", ":", "1">>, FALSE),
      V6(<<"2", "6", "0", "6", ":", "4", "7", "0", "0", ":", ":", "1", "1", "1", "1">>, FALSE),
      V6(<<"2", "0", "0", "1", ":", "d", "b", "8", ":", "0", ":", "0", ":", "1", ":", "0", ":", "0", ":", "1">>, FALSE) }

ProbeBogus ==
    { Bogus(<<"1", "0", ".", "0", ".", "0", ".", "2", "5", "6">>),
      Bogus(<<"1", "2", "7", ".", "1">>),
      Bogus(<<"1", "9", "2", ".", "1", "6", "8", ".", "1">>),
      Bogus(<<"1", "7", "2", ".", "1", "6", ".", "0", ".", "0", "1">>),
      Bogus(<<"1", "6", "9", ".", "2", "5", "4", ".", "1", ".", "1", ".", "1">>),
      Bogus(<<"f", "e", "8", "0">>),
      Bogus(<<"f", "e", "8", "0", ":", ":", "1", ":", ":", "2">>),
      Bogus(<<":", ":", "1", "2", "3", "4", "5">>),
      Bogus(<<"n", "o", "t", "-", "a", "n", "-", "i", "p">>) }

Probes == ProbeV4 \cup ProbeV6 \cup ProbeBogus

IpInit ==
    /\ probe \in {[IdleProbe EXCEPT !.pc = "input", !.rec = a] : a \in Probes}
    /\ imports = [i \in Conns |-> IdleImport]
    /\ retrievals = [r \in Readers |-> IdleRetrieval]
    /\ files = EmptyDir
    /\ issued = EmptyDir
    /\ started = 0
    /\ san = IdleSan

Classify ==
    /\ probe.pc = "input"
    /\ probe' = [probe EXCEPT !.pc = "done", !.private = isPrivateIp(probe.rec.address)]
    /\ UNCHANGED << imports, retrievals, files, issued, started, san >>

IpNext == Classify

IpSpec == IpInit /\ [][IpNext]_vars

(***************************************************************************)
(* Two import requests in flight at the same time, for a public host that  *)
(* serves SVG documents.                                                   *)
(***************************************************************************)
ConcConns == {1, 2}
ConcRequests == {Req("https", <<"H", "T", "T", "P", "S", ":", "/", "/", "H", "/", "a", ".", "s", "v", "g">>)}
ConcAnswers == {Answer(FALSE, << PublicA >>)}
ConcBodies == {Doc(ProseSvg, 0), PadTo(AccentSvg, maxBytes)}

ConcInit ==
    /\ imports = [i \in ConcConns |-> IdleImport]
    /\ retrievals = [r \in Readers |-> IdleRetrieval]
    /\ files = EmptyDir
    /\ issued = EmptyDir
    /\ started = 0
    /\ san = IdleSan
    /\ probe = IdleProbe

ConcNext ==
    \/ \E i \in ConcConns, req \in ConcRequests : ImportStart(i, req)
    \/ \E i \in ConcConns, answer \in ConcAnswers : ImportResolved(i, answer)
    \/ \E i \in ConcConns, code \in UpstreamStatuses : ImportFetched(i, code)
    \/ \E i \in ConcConns : ImportTimeout(i)
    \/ \E i \in ConcConns : ImportNetworkError(i)
    \/ \E i \in ConcConns, body \in ConcBodies, id \in Ids : ImportBody(i, body, id)
    \/ \E i \in ConcConns : ImportWrite(i)
    \/ \E i \in ConcConns : ImportWriteFails(i)
    \/ \E i \in ConcConns : ImportRename(i)
    \/ \E i \in ConcConns : ImportRenameFails(i)

ConcSpec == ConcInit /\ [][ConcNext]_vars

(***************************************************************************)
(* Properties                                                              *)
(***************************************************************************)
\* The files of the store that belong to an import: its final path and its
\* temporary path, once it has drawn an identifier.
FilesOf(rec) ==
    IF rec.filename = << >> THEN {}
    ELSE {rec.filename, TmpPathOf(rec.filename)} \cap DOMAIN files

Ended(rec) == rec.pc = "done"

\* NameBad, tabulated over the names a retrieval may ask for.
BadName == [name \in RetrievalNames |-> NameBad(name)]

\* The names under which an import makes its file visible.
FinalNames == {FileNameOf(id) : id \in Ids}

\* C1: an import whose host resolves to an address set holding at least one
\* private, loopback or link-local address (alone or among public ones)
\* ends with 403, has issued no fetch and has created no file.
C1_PrivateTargetForbidden ==
    \A i \in Conns :
        HasInternal(imports[i].answer) =>
            /\ Ended(imports[i])
            /\ imports[i].status = 403
            /\ imports[i].fetches = 0
            /\ FilesOf(imports[i]) = {}

\* An import was refused for one private address among several public ones.
C1_Witness ==
    \E i \in Conns :
        /\ Ended(imports[i]) /\ imports[i].status = 403
        /\ Len(imports[i].answer.records) > 1
        /\ \E k \in 1..Len(imports[i].answer.records) :
               ~imports[i].answer.records[k].internal

\* C2: an import whose host fails to resolve (the lookup throws or returns
\* no address) ends with 400 "Could not resolve hostname", has issued no
\* fetch and has created no file.
C2_UnresolvableHostRejected ==
    \A i \in Conns :
        ResolveFailed(imports[i].answer) =>
            /\ Ended(imports[i])
            /\ imports[i].status = 400
            /\ imports[i].msg = "Could not resolve hostname"
            /\ imports[i].fetches = 0
            /\ FilesOf(imports[i]) = {}

\* An import ended after its lookup threw.
C2_Witness ==
    \E i \in Conns :
        /\ Ended(imports[i]) /\ imports[i].answer.present /\ imports[i].answer.threw
        /\ imports[i].status = 400

\* C3: an import whose resolution result consists only of entries that are
\* no IP addresses does not proceed to the fetch.
C3_InvalidEntriesNotTrusted ==
    \A i \in Conns : OnlyInvalid(imports[i].answer) => imports[i].fetches = 0

\* C4: an import whose url is missing, blank, not an absolute URL or not
\* http(s) ends with 400 before any lookup or fetch and creates no file.
C4_MalformedUrlRejected ==
    \A i \in Conns :
        UrlBad(imports[i].url) =>
            /\ Ended(imports[i])
            /\ imports[i].status = 400
            /\ imports[i].msg \in {"Missing url", "URL must be http or https", "Invalid URL"}
            /\ imports[i].lookups = 0
            /\ imports[i].fetches = 0
            /\ FilesOf(imports[i]) = {}

\* An import of a well-formed URL of another scheme was refused.
C4_Witness ==
    \E i \in Conns :
        /\ Ended(imports[i]) /\ imports[i].url.kind = "otherscheme"
        /\ imports[i].status = 400

\* C5 as stated: every fetched document holding a DOCTYPE or ENTITY
\* declaration ends the import with 400 "SVG rejected" and no file.
C5_DeclarationAlwaysContentRejected ==
    \A i \in Conns :
        HasDeclaration(imports[i].body) =>
            /\ Ended(imports[i])
            /\ imports[i].status = 400
            /\ imports[i].msg = "SVG rejected"
            /\ FilesOf(imports[i]) = {}

\* C5 as amended: the sanitizer rejects every document holding a DOCTYPE or
\* ENTITY declaration; the import ends with 400 "SVG rejected" when the
\* body is within the size ceiling and with 413 when it is larger (the size
\* gate runs first); no file is created either way.
C5_DeclarationRejectedWithinCeiling ==
    \A i \in Conns :
        HasDeclaration(imports[i].body) =>
            /\ ~sanitizeSvg(imports[i].body.text).ok
            /\ Ended(imports[i])
            /\ FilesOf(imports[i]) = {}
            /\ IF byteLength(imports[i].body) > maxBytes
               THEN imports[i].status = 413
               ELSE imports[i].status = 400 /\ imports[i].msg = "SVG rejected"

\* A document holding an ENTITY declaration next to a script was rejected.
C5_Witness ==
    \E i \in Conns :
        /\ Ended(imports[i]) /\ imports[i].status = 400
        /\ imports[i].msg = "SVG rejected"
        /\ Contains(imports[i].body.text, <<"<", "!", "E", "N", "T", "I", "T", "Y">>)
        /\ Contains(imports[i].body.text, <<"<", "s", "c", "r", "i", "p", "t">>)

\* C6: the cleaned text of an accepted document holds no script block, no
\* on* attribute and no javascript: href, and sanitizing it again changes
\* nothing.
C6_CleanedTextHasNoActiveContent ==
    /\ (san.pc \in {"once", "twice"} /\ san.once.ok) =>
           /\ ~Matches(PatScript, san.once.text)
           /\ ~Matches(PatHandler, san.once.text)
           /\ ~Matches(PatJsHref, san.once.text)
    /\ san.pc = "twice" => (san.twice.ok /\ san.twice.text = san.once.text)

\* C7: every file of the store comes from an import that passed every
\* stage, and an import that ended in a failure has left no file behind.
C7_FailureLeavesStoreUntouched ==
    /\ \A p \in DOMAIN files :
           \E id \in DOMAIN issued : p \in {FileNameOf(id), TmpPathOf(FileNameOf(id))}
    /\ \A i \in Conns :
           (Ended(imports[i]) /\ imports[i].status # 201) => FilesOf(imports[i]) = {}

\* C8: a retrieval ends with 400, with 404, or with 200 and the complete
\* cleaned text of the import that produced the identifier.
C8_RetrievalNeverTruncated ==
    \A r \in Readers :
        Ended(retrievals[r]) =>
            \/ retrievals[r].status \in {400, 404}
            \/ /\ retrievals[r].status = 200
               /\ \E id \in DOMAIN issued :
                      /\ retrievals[r].name = FileNameOf(id)
                      /\ retrievals[r].body = issued[id]

\* A retrieval of an identifier whose import stands between its temporary
\* write and its rename was answered not-found.
C8_Witness ==
    \E r \in Readers, i \in Conns :
        /\ imports[i].pc \in {"writing", "written"}
        /\ Ended(retrievals[r])
        /\ retrievals[r].name = imports[i].filename
        /\ retrievals[r].status = 404

\* C9 as stated: every file of the store has a name of the identifier
\* grammar and holds the cleaned text of an import.
C9_EveryFileMatchesGrammar ==
    \A p \in DOMAIN files :
        /\ isValidUploadName(p)
        /\ \E id \in DOMAIN issued : p = FileNameOf(id) /\ files[p] = issued[id]

\* C9 as amended: every file of the store is either a final file, whose
\* name matches the identifier grammar and which holds the complete cleaned
\* text of the import that drew the identifier, or that import's temporary
\* file, named as the final file plus ".tmp" (outside the grammar) and
\* holding a leading part of that cleaned text.
C9_FilesAreFinalOrTemporary ==
    \A p \in DOMAIN files :
        \E id \in DOMAIN issued :
            \/ /\ p = FileNameOf(id)
               /\ isValidUploadName(p)
               /\ files[p] = issued[id]
            \/ /\ p = TmpPathOf(FileNameOf(id))
               /\ ~isValidUploadName(p)
               /\ IsPrefixOf(files[p], issued[id])

\* The store holds a final file next to the temporary file an import whose
\* rename failed has left.
C9_Witness ==
    \E i \in Conns :
        /\ Ended(imports[i]) /\ imports[i].status = 500
        /\ TmpPathOf(imports[i].filename) \in DOMAIN files
        /\ files[TmpPathOf(imports[i].filename)] = imports[i].clean
        /\ \E p \in DOMAIN files : isValidUploadName(p)

\* C10: on both retrieval routes a name that holds "..", holds "/" or is
\* outside the grammar is answered 400 "Invalid filename" without any
\* filesystem call (no join, no existence test, no read).
C10_BadIdentifierRejectedFirst ==
    \A r \in Readers :
        (retrievals[r].pc # "idle" /\ NameBad(retrievals[r].name)) =>
            /\ Ended(retrievals[r])
            /\ retrievals[r].status = 400
            /\ retrievals[r].msg = "Invalid filename"
            /\ retrievals[r].ops = << >>

\* A preview of "../" followed by the name of a stored file was refused.
C10_Witness ==
    \E r \in Readers :
        /\ Ended(retrievals[r]) /\ retrievals[r].route = "view"
        /\ retrievals[r].status = 400
        /\ retrievals[r].name = <<".", ".", "/">> \o FileNameOf(Uuid(1))
        /\ FileNameOf(Uuid(1)) \in DOMAIN files

\* C11: an import of a benign document within the size ceiling from a
\* public host passes every gate and ends with 201; the cleaned text and
\* the stored file equal the fetched text, and a raw retrieval of the
\* returned name returns exactly that text.
C11_BenignRoundTrip ==
    /\ \A i \in Conns :
           imports[i].body \in BenignBodies =>
               /\ imports[i].clean = imports[i].body
               /\ Ended(imports[i]) => imports[i].status = 201
               /\ imports[i].status = 201 =>
                      /\ imports[i].filename \in DOMAIN files
                      /\ files[imports[i].filename] = imports[i].body
    /\ \A r \in Readers, i \in Conns :
           ( /\ imports[i].body \in BenignBodies /\ imports[i].status = 201
             /\ retrievals[r].route = "uploads" /\ retrievals[r].status = 200
             /\ retrievals[r].name = imports[i].filename ) =>
               retrievals[r].body = imports[i].body

\* C12: the abort timer stays armed for as long as the import waits for
\* the upstream, for the response headers and for the body alike.
C12_TimerCoversWholeFetch ==
    \A i \in Conns :
        imports[i].pc \in {"fetching", "reading"} => imports[i].timer = "armed"

\* C13: a fetched body of more than 500 KiB in UTF-8 ends the import with
\* 413 "SVG too large", with no cleaned text and no file; a body of exactly
\* 500 KiB is not answered 413.
C13_OversizeRejected ==
    \A i \in Conns :
        imports[i].body.present =>
            IF Utf8Bytes(imports[i].body.text) + imports[i].body.pad > 500 * 1024
            THEN /\ Ended(imports[i])
                 /\ imports[i].status = 413
                 /\ imports[i].msg = "SVG too large"
                 /\ imports[i].clean = NoDoc
                 /\ FilesOf(imports[i]) = {}
            ELSE imports[i].status # 413

\* A body one byte over the ceiling, with fewer characters than the
\* ceiling has bytes, was answered 413.
C13_Witness ==
    \E i \in Conns :
        /\ Ended(imports[i]) /\ imports[i].status = 413
        /\ Utf8Bytes(imports[i].body.text) + imports[i].body.pad = 500 * 1024 + 1
        /\ Len(imports[i].body.text) + imports[i].body.pad <= 500 * 1024

\* C14: every file visible under a final name holds an svg opening tag,
\* and an import whose sanitized text holds none ends with 400 "Content is
\* not a valid SVG" and no file.
C14_RootElementGate ==
    /\ \A p \in FinalNames \cap DOMAIN files : HasSvgTag(files[p])
    /\ \A i \in Conns :
           ( /\ imports[i].body.present
             /\ byteLength(imports[i].body) <= maxBytes
             /\ ~HasDeclaration(imports[i].body)
             /\ ~HasSvgTag([imports[i].body EXCEPT
                               !.text = sanitizeSvg(imports[i].body.text).text]) ) =>
               /\ Ended(imports[i])
               /\ imports[i].status = 400
               /\ imports[i].msg = "Content is not a valid SVG"
               /\ FilesOf(imports[i]) = {}

\* A document whose only svg tag the removals took away was rejected.
C14_Witness ==
    \E i \in Conns :
        /\ Ended(imports[i]) /\ imports[i].status = 400
        /\ imports[i].msg = "Content is not a valid SVG"
        /\ HasSvgTag(imports[i].body)

\* C15: with two imports in flight, an import draws a name no earlier or
\* concurrent import has used, a step changes only the temporary and final
\* path of the import that takes it, the temporary file of an import that
\* has written it holds that import's cleaned text, and a file visible
\* under a final name stays with the same content.
C15_StoreAppendOnly ==
    [][ /\ \A i \in ConcConns :
               (imports'[i].filename # << >> /\ imports'[i].filename # imports[i].filename) =>
                   /\ imports'[i].filename \notin DOMAIN files
                   /\ TmpPathOf(imports'[i].filename) \notin DOMAIN files
                   /\ \A id \in DOMAIN issued : FileNameOf(id) # imports'[i].filename
                   /\ \A j \in ConcConns \ {i} :
                          imports'[j].filename # imports'[i].filename
        /\ \A p \in (DOMAIN files) \cup (DOMAIN files') :
               (p \notin DOMAIN files \/ p \notin DOMAIN files' \/ files'[p] # files[p]) =>
                   \E i \in ConcConns :
                       /\ imports'[i] # imports[i]
                       /\ p \in {imports'[i].filename, TmpPathOf(imports'[i].filename)}
        /\ \A i \in ConcConns :
               imports'[i].pc = "written" =>
                   /\ TmpPathOf(imports'[i].filename) \in DOMAIN files'
                   /\ files'[TmpPathOf(imports'[i].filename)] = imports'[i].clean
        /\ \A p \in FinalNames \cap DOMAIN files :
               p \in DOMAIN files' /\ files'[p] = files[p] ]_vars

\* Two imports stand between their temporary write and their rename at
\* the same time, each with a temporary file of its own.
C15_Witness ==
    /\ \A i \in ConcConns : imports[i].pc = "written"
    /\ imports[1].filename # imports[2].filename
    /\ \A i \in ConcConns : TmpPathOf(imports[i].filename) \in DOMAIN files

\* C16: once the upstream has answered the fetch with a status outside
\* 200..299 the import has ended with 502 "Upstream fetch failed" for that
\* status, has read and sanitized no body and owns no file.
C16_UpstreamErrorReported ==
    \A i \in Conns :
        (imports[i].upstream # 0 /\ imports[i].upstream \notin 200..299) =>
            /\ Ended(imports[i])
            /\ imports[i].status = 502
            /\ imports[i].msg = "Upstream fetch failed"
            /\ imports[i].body = NoDoc
            /\ imports[i].clean = NoDoc
            /\ FilesOf(imports[i]) = {}

\* An import ended with 502 for an upstream 404.
C16_Witness ==
    \E i \in Conns :
        Ended(imports[i]) /\ imports[i].status = 502 /\ imports[i].upstream = 404

\* C17: on both routes a retrieval is answered 200 exactly when the name
\* matches the grammar and the file of a completed import is visible under
\* it, and 404 exactly when the name matches the grammar and no file is
\* visible under it; the file of an import answered 201 is visible, and a
\* visible file stays visible, so every later retrieval finds it.
C17_RetrievalIffStored ==
    [][ /\ \A r \in Readers :
               (retrievals'[r] # retrievals[r] /\ retrievals'[r].pc = "done") =>
                   LET q == retrievals'[r]
                       stored == /\ q.name \in DOMAIN files
                                 /\ \E id \in DOMAIN issued :
                                        /\ q.name = FileNameOf(id)
                                        /\ files[q.name] = issued[id]
                   IN  /\ q.status \in {200, 400, 404}
                       /\ q.status = 200 <=> (~BadName[q.name] /\ stored)
                       /\ q.status = 404 <=>
                              (~BadName[q.name] /\ q.name \notin DOMAIN files)
        /\ \A i \in Conns :
               imports'[i].status = 201 => imports'[i].filename \in DOMAIN files'
        /\ \A p \in FinalNames \cap DOMAIN files : p \in DOMAIN files' ]_vars

\* A raw retrieval of the name an import returned was answered 200.
C17_Witness ==
    \E r \in Readers, i \in Conns :
        /\ imports[i].status = 201
        /\ Ended(retrievals[r]) /\ retrievals[r].route = "uploads"
        /\ retrievals[r].name = imports[i].filename
        /\ retrievals[r].status = 200

\* C18: every preview answered 200 carries Content-Security-Policy with
\* default-src 'none' and X-Content-Type-Options: nosniff, and every raw
\* retrieval answered 200 carries Content-Type image/svg+xml.
C18_ResponseHeaders ==
    \A r \in Readers :
        (Ended(retrievals[r]) /\ retrievals[r].status = 200) =>
            IF retrievals[r].route = "view"
            THEN /\ "Content-Security-Policy: default-src 'none'; img-src 'self'; style-src 'unsafe-inline';"
                        \in retrievals[r].headers
                 /\ "X-Content-Type-Options: nosniff" \in retrievals[r].headers
            ELSE "Content-Type: image/svg+xml; charset=utf-8" \in retrievals[r].headers

\* A preview was answered 200.
C18_Witness ==
    \E r \in Readers :
        /\ Ended(retrievals[r]) /\ retrievals[r].route = "view"
        /\ retrievals[r].status = 200 /\ retrievals[r].headers # {}

\* C19: an import runs shape check, address admission, fetch, size gate,
\* sanitizer, root-element gate and persistence in this order, each once,
\* with one lookup and at most one fetch, and is answered with the outcome
\* of the first stage that fails: a new request runs the shape check; a
\* request under way moves to the next stage or ends with the failure of
\* the stage it is in.
C19_StagesInOrder ==
    [][ \A i \in Conns :
        LET a == imports[i]
            b == imports'[i]
            over == byteLength(b.body) > maxBytes
            Rank(pc) ==
                CASE pc = "idle" -> 0 [] pc = "resolving" -> 1 [] pc = "fetching" -> 2
                  [] pc = "reading" -> 3 [] pc = "writing" -> 4 [] pc = "written" -> 5
                  [] pc = "done" -> 6
        IN  a # b =>
            IF a.pc \in {"idle", "done"}
            THEN /\ b.pc \in {"resolving", "done"}
                 /\ b.fetches = 0
                 /\ b.lookups = IF b.pc = "resolving" THEN 1 ELSE 0
                 /\ b.pc = "done" => b.status = 400
            ELSE /\ b.pc = "done" \/ Rank(b.pc) = Rank(a.pc) + 1
                 /\ b.lookups = 1
                 /\ b.fetches = IF Rank(a.pc) >= 2 \/ b.pc = "fetching" THEN 1 ELSE 0
                 /\ b.pc = "done" =>
                        CASE a.pc = "resolving" ->
                                 /\ b.status \in {400, 403}
                                 /\ b.status = 403 <=> HasInternal(b.answer)
                          [] a.pc = "fetching" -> b.status \in {502, 504, 500}
                          [] a.pc = "reading" ->
                                 \/ b.status = 500 /\ ~b.body.present
                                 \/ /\ b.body.present
                                    /\ b.status = IF over THEN 413 ELSE 400
                                    /\ b.msg = IF over THEN "SVG too large"
                                               ELSE IF HasDeclaration(b.body) THEN "SVG rejected"
                                               ELSE "Content is not a valid SVG"
                          [] a.pc = "writing" -> b.status = 500
                          [] a.pc = "written" -> b.status \in {201, 500} ]_vars

\* An oversized body holding a DOCTYPE was answered 413.
C19_Witness ==
    \E i \in Conns :
        /\ Ended(imports[i]) /\ imports[i].status = 413
        /\ HasDeclaration(imports[i].body)

\* C20: isPrivateIp answers true exactly for the valid addresses of
\* 10.0.0.0/8, 127.0.0.0/8, 169.254.0.0/16, 192.168.0.0/16 and 172.16.0.0/12,
\* for ::1, for :: and for the IPv6 addresses whose first group is fe80,
\* and false for every other valid address and for every text that is no
\* address.
C20_PrivateRangesExact ==
    probe.pc = "done" =>
        probe.private = (probe.rec.family # 0 /\ probe.rec.internal)

\* 172.31.0.1, the last second octet of 172.16.0.0/12, was judged private.
C20_Witness ==
    /\ probe.pc = "done" /\ probe.private
    /\ probe.rec.address = <<"1", "7", "2", ".", "3", "1", ".", "0", ".", "1">>
====
